---------------------------- MODULE Spec2Model ----------------------------
(***************************************************************************)
(* Model of the scholar-reader API server's two data paths:                *)
(*                                                                         *)
(*   - api/src/queries.ts, Connection.getCitationsForPaper: the loop that  *)
(*     folds the joined rows of one paper into one Citation per            *)
(*     citation_id, with add_paper and add_bounding_box;                   *)
(*   - api/src/s2-api.ts, getPapers / getPaper: one axios request per      *)
(*     identifier, joined by Promise.all.                                  *)
(***************************************************************************)
EXTENDS Integers, Sequences, FiniteSets, TLC

VARIABLES
    aggPc,        \* getCitationsForPaper: "loop" (in the for-of) or "done"
    rows,         \* the rows the for-of loop has taken from the query result
    citations,    \* const citations: CitationsById, keyed by citation_id
    aggResult,    \* the value getCitationsForPaper returned
    gpPc,         \* getPapers: "idle", "awaiting", "returned" or "rejected"
    s2Ids,        \* the argument of getPapers
    requests,     \* the identifiers axios.get was called with, in call order
    reqState,     \* per position, the getPaper promise: "inflight",
                  \* "fulfilled" or "rejected"
    response,     \* per position, what axios.get produced
    values,       \* per position, the value Promise.all collected
    papers,       \* the list getPapers returned
    errorLog,     \* how many times console.error was called
    lastSettled   \* the position whose getPaper promise settled last

aggVars == <<aggPc, rows, citations, aggResult>>
fetchVars == <<gpPc, s2Ids, requests, reqState, response, values, papers,
               errorLog, lastSettled>>
vars == <<aggPc, rows, citations, aggResult, gpPc, s2Ids, requests, reqState,
          response, values, papers, errorLog, lastSettled>>

(***************************************************************************)
(* Bounds and input domains.                                               *)
(***************************************************************************)
MaxRows == 4
MaxBoxRows == 3
MaxIds == 3
MaxYearLen == 3

\* citation.id is an integer primary key; as a property name of `citations`
\* it is an integer-like key.
CitationIds == {1, 2}
PaperIds == {"P1", "P2", "P3"}

Box(p, l, t, w, h) == [page |-> p, left |-> l, top |-> t, width |-> w, height |-> h]

Box0 == Box(0, 1, 2, 3, 4)

\* Box0 and the five boxes that differ from it in exactly one field.
UnitBoxes ==
    {Box0, Box(1, 1, 2, 3, 4), Box(0, 0, 2, 3, 4), Box(0, 1, 0, 3, 4),
     Box(0, 1, 2, 0, 4), Box(0, 1, 2, 3, 0)}

Row(c, p, b) ==
    [citation_id |-> c, cited_paper_id |-> p, page |-> b.page, left |-> b.left,
     top |-> b.top, width |-> b.width, height |-> b.height]

\* Rows of two citations over three papers and two boxes.
AggRows == {Row(c, p, b) : c \in CitationIds, p \in PaperIds,
                           b \in {Box0, Box(1, 1, 2, 3, 4)}}

\* Rows of one citation over two papers and the six unit boxes.
BoxRows == {Row(1, p, b) : p \in {"P1", "P2"}, b \in UnitBoxes}

(***************************************************************************)
(* queries.ts                                                              *)
(***************************************************************************)
EmptyObject == [k \in {} |-> {}]

hasOwnProperty(obj, key) == key \in DOMAIN obj

\* Array.prototype.indexOf, zero-based, -1 when absent.
IndexOf(arr, x) ==
    IF \E i \in 1..Len(arr) : arr[i] = x
    THEN (CHOOSE i \in 1..Len(arr) :
              arr[i] = x /\ \A j \in 1..(i - 1) : arr[j] # x) - 1
    ELSE -1

\* Mutation of isEqual: the height field is not compared.
isEqual_IgnoringHeight(a, b) ==
    /\ a.page = b.page
    /\ a.left = b.left
    /\ a.top = b.top
    /\ a.width = b.width

\* _.isEqual on two BoundingBox objects: every own field equal.
isEqual(a, b) ==
    /\ a.page = b.page
    /\ a.left = b.left
    /\ a.top = b.top
    /\ a.width = b.width
    /\ a.height = b.height

\* Mutation of add_paper: the membership test is inverted.
add_paper_Inverted(citation, s2Id) ==
    IF IndexOf(citation.papers, s2Id) # -1
    THEN [citation EXCEPT !.papers = Append(@, s2Id)]
    ELSE citation

\* Mutation of add_paper: no membership test.
add_paper_NoCheck(citation, s2Id) ==
    [citation EXCEPT !.papers = Append(@, s2Id)]

\* Mutation of add_paper: unshift in place of push.
add_paper_Unshift(citation, s2Id) ==
    IF IndexOf(citation.papers, s2Id) = -1
    THEN [citation EXCEPT !.papers = <<s2Id>> \o @]
    ELSE citation

\* if (citation.papers.indexOf(s2Id) === -1) citation.papers.push(s2Id)
add_paper(citation, s2Id) ==
    IF IndexOf(citation.papers, s2Id) = -1
    THEN [citation EXCEPT !.papers = Append(@, s2Id)]
    ELSE citation

\* if (!citation.bounding_boxes.some(b => _.isEqual(b, box))) push(box)
add_bounding_box(citation, box) ==
    IF ~ \E i \in 1..Len(citation.bounding_boxes) :
             isEqual(citation.bounding_boxes[i], box)
    THEN [citation EXCEPT !.bounding_boxes = Append(@, box)]
    ELSE citation

NewCitation == [bounding_boxes |-> <<>>, papers |-> <<>>]

Put(obj, key, val) ==
    [k \in DOMAIN obj \cup {key} |-> IF k = key THEN val ELSE obj[k]]

\* Mutation of CreateIfAbsent: the entry is re-created at every row.
CreateIfAbsent_Always(cits, key) == Put(cits, key, NewCitation)

\* if (!citations.hasOwnProperty(key)) { citations[key] = {...} }
CreateIfAbsent(cits, key) ==
    IF ~ hasOwnProperty(cits, key) THEN Put(cits, key, NewCitation) ELSE cits

\* One iteration of the for-of loop.
LoopBody(cits, row) ==
    LET key == row.citation_id
        c1 == CreateIfAbsent(cits, key)
        s2Id == row.cited_paper_id
        bounding_box == [page |-> row.page, left |-> row.left, top |-> row.top,
                         width |-> row.width, height |-> row.height]
        c2 == [c1 EXCEPT ![key] = add_paper(c1[key], s2Id)]
        c3 == [c2 EXCEPT ![key] = add_bounding_box(c2[key], bounding_box)]
    IN  c3

RECURSIVE AscendingKeys(_)
AscendingKeys(S) ==
    IF S = {} THEN <<>>
    ELSE LET m == CHOOSE k \in S : \A j \in S : k <= j
         IN  <<m>> \o AscendingKeys(S \ {m})

\* Object.values: integer-like keys are enumerated in ascending order.
ObjectValues(obj) ==
    LET keys == AscendingKeys(DOMAIN obj)
    IN  [i \in 1..Len(keys) |-> obj[keys[i]]]

\* The for-of loop takes the next row of the query result.
ProcessRow(row) ==
    /\ aggPc = "loop"
    /\ rows' = Append(rows, row)
    /\ citations' = LoopBody(citations, row)
    /\ UNCHANGED <<aggPc, aggResult>>
    /\ UNCHANGED fetchVars

\* The query result is exhausted: return Object.values(citations).
ReturnCitations ==
    /\ aggPc = "loop"
    /\ aggPc' = "done"
    /\ aggResult' = ObjectValues(citations)
    /\ UNCHANGED <<rows, citations>>
    /\ UNCHANGED fetchVars

(***************************************************************************)
(* s2-api.ts                                                               *)
(***************************************************************************)
\* JavaScript values that share a field with values of another type.
Undefined == [t |-> "undefined"]
Null == [t |-> "null"]
NaN == [t |-> "NaN"]
Num(n) == [t |-> "number", v |-> n]
Hole == [t |-> "hole"]

\* A string whose characters the model reads is a sequence of characters.
WhiteSpace == {" "}
DigitChars == <<"0", "1", "2", "3", "4", "5", "6", "7", "8", "9",
                "a", "b", "c", "d", "e", "f">>
UpperDigitChars == <<"0", "1", "2", "3", "4", "5", "6", "7", "8", "9",
                     "A", "B", "C", "D", "E", "F">>

IsDigit(c, radix) ==
    \E d \in 1..radix : DigitChars[d] = c \/ UpperDigitChars[d] = c

DigitVal(c) ==
    (CHOOSE d \in 1..16 : DigitChars[d] = c \/ UpperDigitChars[d] = c) - 1

RECURSIVE TrimStart(_)
TrimStart(s) ==
    IF s # <<>> /\ Head(s) \in WhiteSpace THEN TrimStart(Tail(s)) ELSE s

RECURSIVE DigitPrefix(_, _)
DigitPrefix(s, radix) ==
    IF s # <<>> /\ IsDigit(Head(s), radix)
    THEN <<Head(s)>> \o DigitPrefix(Tail(s), radix)
    ELSE <<>>

RECURSIVE DigitsValue(_, _)
DigitsValue(ds, radix) ==
    IF ds = <<>> THEN 0
    ELSE DigitsValue(SubSeq(ds, 1, Len(ds) - 1), radix) * radix
         + DigitVal(ds[Len(ds)])

\* parseInt(string) with no radix argument (ECMAScript 18.2.5).
parseInt(str) ==
    LET s1 == TrimStart(str)
        negative == s1 # <<>> /\ Head(s1) = "-"
        s2 == IF s1 # <<>> /\ Head(s1) \in {"+", "-"} THEN Tail(s1) ELSE s1
        hex == Len(s2) >= 2 /\ s2[1] = "0" /\ s2[2] \in {"x", "X"}
        radix == IF hex THEN 16 ELSE 10
        s3 == IF hex THEN Tail(Tail(s2)) ELSE s2
        ds == DigitPrefix(s3, radix)
    IN  IF ds = <<>> THEN NaN
        ELSE Num((IF negative THEN -1 ELSE 1) * DigitsValue(ds, radix))

\* ToBoolean of a number: 0 and NaN are falsy.
Truthy(n) == n # NaN /\ n # Num(0)

\* parseInt(data.year) || null
YearOf(year) == IF Truthy(parseInt(year)) THEN parseInt(year) ELSE Null

RECURSIVE Join(_, _)
Join(strs, sep) ==
    IF strs = <<>> THEN ""
    ELSE IF Len(strs) = 1 THEN strs[1]
    ELSE strs[1] \o sep \o Join(Tail(strs), sep)

\* The service's bodies for identifier id: a paper, a paper without its
\* authors list, and an error body.
PaperBody(id, year) ==
    [paperId |-> id, title |-> "Title of " \o id,
     authors |-> <<[name |-> "Ann"], [name |-> "Bo"]>>,
     abstract |-> "Abstract of " \o id, url |-> "https://s2/" \o id,
     venue |-> Null, year |-> year]

PaperBodyNoAuthors(id, year) ==
    [paperId |-> id, title |-> "Title of " \o id,
     abstract |-> "Abstract of " \o id, url |-> "https://s2/" \o id,
     venue |-> Null, year |-> year]

ErrorBody == [error |-> "Paper not found"]

AxiosOk(data) == [kind |-> "response", status |-> 200, data |-> data]
AxiosThrew == [kind |-> "error"]
NoResponse == [kind |-> "none"]

\* The success marker of a response body.
isS2ApiResponseSuccess(resp) == "paperId" \in DOMAIN resp.data

Return(v) == [kind |-> "return", value |-> v]
Throw == [kind |-> "throw"]

\* The object literal getPaper returns.
MakePaper(s2Id, data) ==
    [s2Id |-> s2Id, title |-> data.title,
     authors |-> Join([i \in 1..Len(data.authors) |-> data.authors[i].name], ", "),
     abstract |-> data.abstract, url |-> data.url, year |-> YearOf(data.year),
     venue |-> data.venue]

\* getPaper from the point where axios.get has produced `resp`:
\* data.authors.map throws a TypeError when data.authors is undefined.
getPaperWith(s2Id, resp) ==
    IF isS2ApiResponseSuccess(resp)
    THEN IF "authors" \in DOMAIN resp.data
         THEN Return(MakePaper(s2Id, resp.data))
         ELSE Throw
    ELSE Return(Undefined)

\* getPaper's catch block: log, then return undefined.
getPaperCatch == Return(Undefined)

\* Mutation of PromiseAllResolveElement: values are stored in the order
\* the promises fulfil.
PromiseAllResolveElement_Push(vals, index, v) ==
    LET next == CHOOSE i \in 1..Len(vals) :
                    vals[i] = Hole /\ \A j \in 1..(i - 1) : vals[j] # Hole
    IN  [vals EXCEPT ![next] = v]

\* Promise.all stores a fulfilled element at the index of its promise.
PromiseAllResolveElement(vals, index, v) == [vals EXCEPT ![index] = v]

\* results.filter(paper => paper !== undefined)
FilterPapers(results) == SelectSeq(results, LAMBDA paper : paper # Undefined)

\* The promise of position i settles with `outcome`; the microtasks that
\* follow (Promise.all's reaction, the rest of getPapers) run before any
\* other callback.
Settle(i, outcome) ==
    LET st == [reqState EXCEPT ![i] =
                   IF outcome.kind = "throw" THEN "rejected" ELSE "fulfilled"]
        vs == IF outcome.kind = "throw" THEN values
              ELSE PromiseAllResolveElement(values, i, outcome.value)
    IN  /\ reqState' = st
        /\ values' = vs
        /\ lastSettled' = i
        /\ IF gpPc = "awaiting" /\ outcome.kind = "throw"
           THEN gpPc' = "rejected" /\ UNCHANGED papers
           ELSE IF gpPc = "awaiting" /\ \A j \in 1..Len(s2Ids) : st[j] = "fulfilled"
           THEN gpPc' = "returned" /\ papers' = FilterPapers(vs)
           ELSE UNCHANGED <<gpPc, papers>>

\* getPapers(ids) up to its await: s2Ids.map runs every getPaper up to its
\* own await of axios.get.
GetPapers(ids) ==
    /\ gpPc = "idle"
    /\ s2Ids' = ids
    /\ requests' = [i \in 1..Len(ids) |-> ids[i]]
    /\ reqState' = [i \in 1..Len(ids) |-> "inflight"]
    /\ response' = [i \in 1..Len(ids) |-> NoResponse]
    /\ values' = [i \in 1..Len(ids) |-> Hole]
    /\ IF ids = <<>>
       THEN gpPc' = "returned" /\ papers' = FilterPapers(<<>>)
       ELSE gpPc' = "awaiting" /\ UNCHANGED papers
    /\ UNCHANGED <<errorLog, lastSettled>>
    /\ UNCHANGED aggVars

\* axios.get rejects: a transport error or a status outside 2xx.
AxiosError(i) ==
    /\ i \in 1..Len(s2Ids)
    /\ reqState[i] = "inflight"
    /\ response' = [response EXCEPT ![i] = AxiosThrew]
    /\ errorLog' = errorLog + 1
    /\ Settle(i, getPaperCatch)
    /\ UNCHANGED <<s2Ids, requests>>
    /\ UNCHANGED aggVars

\* axios.get resolves with a response carrying `data`.
AxiosResponse(i, data) ==
    /\ i \in 1..Len(s2Ids)
    /\ reqState[i] = "inflight"
    /\ response' = [response EXCEPT ![i] = AxiosOk(data)]
    /\ Settle(i, getPaperWith(s2Ids[i], AxiosOk(data)))
    /\ UNCHANGED <<s2Ids, requests, errorLog>>
    /\ UNCHANGED aggVars

IdLists(n) == UNION {[1..k -> PaperIds] : k \in 0..n}

FetchYears == {<<"2", "0", "1", "9">>, <<"a", "b", "c">>}

FetchBodies(id) ==
    {PaperBody(id, y) : y \in FetchYears}
        \cup {PaperBodyNoAuthors(id, <<"2", "0", "1", "9">>), ErrorBody}

YearChars == {"0", "1", "2", "a", "x", "-", " "}
YearStrings == UNION {[1..k -> YearChars] : k \in 0..MaxYearLen}
YearIdLists == {<<"P1">>, <<"P1", "P2">>}

(***************************************************************************)
(* Specifications                                                          *)
(***************************************************************************)
Init ==
    /\ aggPc = "loop"
    /\ rows = <<>>
    /\ citations = EmptyObject
    /\ aggResult = <<>>
    /\ gpPc = "idle"
    /\ s2Ids = <<>>
    /\ requests = <<>>
    /\ reqState = <<>>
    /\ response = <<>>
    /\ values = <<>>
    /\ papers = <<>>
    /\ errorLog = 0
    /\ lastSettled = 0

Next ==
    \/ \E row \in AggRows : Len(rows) < MaxRows /\ ProcessRow(row)
    \/ ReturnCitations

Spec == Init /\ [][Next]_vars

NextBoxes ==
    \/ \E row \in BoxRows : Len(rows) < MaxBoxRows /\ ProcessRow(row)
    \/ ReturnCitations

SpecBoxes == Init /\ [][NextBoxes]_vars

NextFetch ==
    \/ \E ids \in IdLists(MaxIds) : GetPapers(ids)
    \/ \E i \in {j \in 1..Len(s2Ids) : reqState[j] = "inflight"} :
           AxiosError(i)
    \/ \E i \in {j \in 1..Len(s2Ids) : reqState[j] = "inflight"} :
           \E data \in FetchBodies(s2Ids[i]) : AxiosResponse(i, data)

SpecFetch == Init /\ [][NextFetch]_vars

NextYear ==
    \/ \E ids \in YearIdLists : GetPapers(ids)
    \/ \E i \in {j \in 1..Len(s2Ids) : reqState[j] = "inflight"} :
           \E y \in YearStrings : AxiosResponse(i, PaperBody(s2Ids[i], y))

SpecYear == Init /\ [][NextYear]_vars

(***************************************************************************)
(* Properties of getCitationsForPaper                                      *)
(***************************************************************************)
ToSet(seq) == {seq[i] : i \in 1..Len(seq)}

NoDuplicates(seq) == \A i, j \in 1..Len(seq) : i # j => seq[i] # seq[j]

Count(seq, x) == Cardinality({i \in 1..Len(seq) : seq[i] = x})

IsPrefix(a, b) == Len(a) <= Len(b) /\ \A i \in 1..Len(a) : a[i] = b[i]

RowBox(r) == Box(r.page, r.left, r.top, r.width, r.height)

RowsOf(c) == SelectSeq(rows, LAMBDA r : r.citation_id = c)

PapersOf(c) == [i \in 1..Len(RowsOf(c)) |-> RowsOf(c)[i].cited_paper_id]

BoxesOf(c) == [i \in 1..Len(RowsOf(c)) |-> RowBox(RowsOf(c)[i])]

SeenCitationIds == {rows[i].citation_id : i \in 1..Len(rows)}

\* seq without every element that occurred earlier in it.
RECURSIVE FirstAppearances(_)
FirstAppearances(seq) ==
    IF seq = <<>> THEN <<>>
    ELSE LET init == FirstAppearances(SubSeq(seq, 1, Len(seq) - 1))
             x == seq[Len(seq)]
         IN  IF x \in ToSet(init) THEN init ELSE Append(init, x)

\* How many fields two boxes differ in.
FieldsDiffering(a, b) ==
    Cardinality({f \in {"page", "left", "top", "width", "height"} : a[f] # b[f]})

\* C4: when getCitationsForPaper has returned, its result pairs off one to
\* one with the distinct citation_id values of the rows, and the Citation
\* paired with an id has exactly that id's cited papers and exactly that
\* id's boxes, as sets.
C4_NoLostNoInventedFacts ==
    aggPc = "done" =>
        /\ Len(aggResult) = Cardinality(SeenCitationIds)
        /\ \E f \in [1..Len(aggResult) -> SeenCitationIds] :
               /\ \A k, l \in 1..Len(aggResult) : k # l => f[k] # f[l]
               /\ \A k \in 1..Len(aggResult) :
                      /\ ToSet(aggResult[k].papers) = ToSet(PapersOf(f[k]))
                      /\ ToSet(aggResult[k].bounding_boxes) = ToSet(BoxesOf(f[k]))

\* Four rows, more rows than facts: two citations came back, one of them
\* with two papers and two boxes.
C4_Witness ==
    /\ aggPc = "done"
    /\ Len(rows) = 4
    /\ Len(aggResult) = 2
    /\ \E k \in 1..2 : /\ Len(aggResult[k].papers) = 2
                       /\ Len(aggResult[k].bounding_boxes) = 2

\* C5: after every row of the loop, no papers list holds an identifier
\* twice, and every (citation_id, cited_paper_id) pair fed so far, however
\* often, has exactly one entry.
C5_PapersNeverDuplicated ==
    /\ \A c \in DOMAIN citations : NoDuplicates(citations[c].papers)
    /\ \A i \in 1..Len(rows) :
           Count(citations[rows[i].citation_id].papers, rows[i].cited_paper_id) = 1

\* The same pair fed at positions 1 and 3 with another paper of the same
\* citation in between, the loop still running.
C5_Witness ==
    /\ aggPc = "loop"
    /\ Len(rows) = 3
    /\ rows[1].citation_id = rows[2].citation_id
    /\ rows[1].citation_id = rows[3].citation_id
    /\ rows[1].cited_paper_id = rows[3].cited_paper_id
    /\ rows[1].cited_paper_id # rows[2].cited_paper_id
    /\ Len(citations[rows[1].citation_id].papers) = 2

\* C6: within a citation, bounding_boxes holds every box of its rows, and
\* holds as many entries as its rows have boxes distinct in at least one of
\* the five fields: equal boxes collapse, boxes differing in a field stay.
C6_BoxDedupByAllFiveFields ==
    \A c \in DOMAIN citations :
        /\ \A i \in 1..Len(RowsOf(c)) :
               \E k \in 1..Len(citations[c].bounding_boxes) :
                   citations[c].bounding_boxes[k] = BoxesOf(c)[i]
        /\ Len(citations[c].bounding_boxes) = Cardinality(ToSet(BoxesOf(c)))

\* Two rows that differ only in cited_paper_id, then a row whose box differs
\* from theirs in exactly one field: two boxes are kept.
C6_Witness ==
    /\ Len(rows) = 3
    /\ rows[1].cited_paper_id # rows[2].cited_paper_id
    /\ RowBox(rows[1]) = RowBox(rows[2])
    /\ FieldsDiffering(RowBox(rows[1]), RowBox(rows[3])) = 1
    /\ rows[3].height # rows[1].height
    /\ Len(citations[1].bounding_boxes) = 2

\* C7: for every citation, papers is the sequence of its rows' cited papers
\* in order of first appearance, and bounding_boxes the sequence of its
\* rows' boxes in order of first appearance.
C7_FirstAppearanceOrder ==
    \A c \in DOMAIN citations :
        /\ citations[c].papers = FirstAppearances(PapersOf(c))
        /\ citations[c].bounding_boxes = FirstAppearances(BoxesOf(c))

\* The rows of one citation arrived with papers P1, P2, P1, P3.
C7_Witness ==
    /\ Len(rows) = 4
    /\ PapersOf(1) = <<"P1", "P2", "P1", "P3">>
    /\ citations[1].papers = <<"P1", "P2", "P3">>

\* C8: a step of the loop keeps every entry, with its papers and
\* bounding_boxes as prefixes of the new ones and never empty afterwards;
\* it adds at most the entry of the row's citation_id, which exists
\* afterwards, and leaves the entries of all other citations as they were.
C8_CreateOnceAppendOnly ==
    [][ /\ \A c \in DOMAIN citations :
               /\ c \in DOMAIN citations'
               /\ IsPrefix(citations[c].papers, citations'[c].papers)
               /\ IsPrefix(citations[c].bounding_boxes, citations'[c].bounding_boxes)
               /\ citations'[c].papers # <<>>
               /\ citations'[c].bounding_boxes # <<>>
        /\ rows' # rows =>
               LET key == rows'[Len(rows')].citation_id
               IN  /\ DOMAIN citations' = DOMAIN citations \cup {key}
                   /\ DOMAIN citations' = {rows'[i].citation_id : i \in 1..Len(rows')}
                   /\ \A c \in DOMAIN citations \ {key} : citations'[c] = citations[c]
      ]_vars

\* Rows of citation 1, citation 2, citation 1 again: the entry of citation 1
\* was created, left alone, then appended to.
C8_Witness ==
    /\ Len(rows) = 3
    /\ rows[1].citation_id = 1
    /\ rows[2].citation_id = 2
    /\ rows[3].citation_id = 1
    /\ Len(citations[1].papers) = 2
    /\ Len(citations[2].papers) = 1

(***************************************************************************)
(* Properties of getPapers                                                 *)
(***************************************************************************)
Positions == 1..Len(s2Ids)

\* The service failed for position i: axios.get threw (transport error or a
\* status outside 2xx) or the body carried no success marker.
ServiceFailed(i) ==
    \/ response[i].kind = "error"
    \/ response[i].kind = "response" /\ "paperId" \notin DOMAIN response[i].data

\* A body with the success marker and no authors list.
Malformed(i) ==
    /\ response[i].kind = "response"
    /\ "paperId" \in DOMAIN response[i].data
    /\ "authors" \notin DOMAIN response[i].data

Resolved(i) ==
    /\ response[i].kind = "response"
    /\ "paperId" \in DOMAIN response[i].data
    /\ "authors" \in DOMAIN response[i].data

AllSettled == gpPc # "idle" /\ \A i \in Positions : reqState[i] # "inflight"

\* The positions in S, ascending.
PositionsAscending(S) == AscendingKeys(S)

\* `list` is the metadata of the positions in S, in input order.
IsMetadataOf(list, S) ==
    LET pos == PositionsAscending(S)
    IN  /\ Len(list) = Len(pos)
        /\ \A k \in 1..Len(pos) :
               /\ list[k].s2Id = s2Ids[pos[k]]
               /\ list[k].title = response[pos[k]].data.title
               /\ list[k].url = response[pos[k]].data.url
               /\ list[k].abstract = response[pos[k]].data.abstract

\* C1: getPapers never throws, and once every request has completed or
\* failed it has returned the metadata of exactly the identifiers for which
\* the service did not fail.
C1_PartialFailureTolerance ==
    /\ gpPc # "rejected"
    /\ AllSettled =>
           /\ gpPc = "returned"
           /\ IsMetadataOf(papers, {i \in Positions : ~ ServiceFailed(i)})

\* C2: getPapers has returned or rejected only when no request is in flight.
C2_WaitForAllJoin ==
    gpPc \in {"returned", "rejected"} =>
        \A i \in Positions : reqState[i] # "inflight"

\* C3: a body with the success marker and no authors list makes getPaper
\* yield "no result" for that identifier, and getPapers does not reject.
C3_MalformedRecoveredLocally ==
    \A i \in Positions :
        Malformed(i) =>
            /\ reqState[i] = "fulfilled"
            /\ values[i] = Undefined
            /\ gpPc # "rejected"

\* A decimal integer literal: an optional sign, then decimal digits only.
IsDecimalLiteral(str) ==
    LET body == IF str # <<>> /\ str[1] \in {"+", "-"} THEN Tail(str) ELSE str
    IN  /\ body # <<>>
        /\ \A i \in 1..Len(body) :
               body[i] \in {"0", "1", "2", "3", "4", "5", "6", "7", "8", "9"}

DecimalDigit(c) ==
    CASE c = "0" -> 0 [] c = "1" -> 1 [] c = "2" -> 2 [] c = "3" -> 3
      [] c = "4" -> 4 [] c = "5" -> 5 [] c = "6" -> 6 [] c = "7" -> 7
      [] c = "8" -> 8 [] c = "9" -> 9

RECURSIVE DecimalMagnitude(_)
DecimalMagnitude(body) ==
    IF body = <<>> THEN 0
    ELSE 10 * DecimalMagnitude(SubSeq(body, 1, Len(body) - 1))
         + DecimalDigit(body[Len(body)])

\* The integer a decimal literal denotes.
Denoted(str) ==
    IF str[1] = "-" THEN 0 - DecimalMagnitude(Tail(str))
    ELSE IF str[1] = "+" THEN DecimalMagnitude(Tail(str))
    ELSE DecimalMagnitude(str)

HasNoDigit(str) ==
    \A i \in 1..Len(str) :
        str[i] \notin {"0", "1", "2", "3", "4", "5", "6", "7", "8", "9"}

\* C9: a successful response always yields a record with the response's
\* other fields; its year is the integer the year string denotes when the
\* string is a decimal integer literal, and null when the string holds no
\* digit at all.
C9_YearCoercion ==
    \A i \in Positions :
        Resolved(i) =>
            /\ reqState[i] = "fulfilled"
            /\ values[i].title = response[i].data.title
            /\ IsDecimalLiteral(response[i].data.year) =>
                   values[i].year = Num(Denoted(response[i].data.year))
            /\ HasNoDigit(response[i].data.year) => values[i].year = Null

\* C10: every input position has exactly one request, for its identifier;
\* a returned list is the metadata of the resolved positions in input order,
\* whatever order the requests completed in; and whether getPapers has
\* returned once all requests are settled depends on the responses alone.
C10_ResultIndependentOfCompletionOrder ==
    /\ gpPc # "idle" =>
           /\ Len(requests) = Len(s2Ids)
           /\ \A i \in Positions : requests[i] = s2Ids[i]
    /\ gpPc = "returned" =>
           IsMetadataOf(papers, {i \in Positions : Resolved(i)})
    /\ AllSettled =>
           (gpPc = "returned" <=> \A i \in Positions : ~ Malformed(i))

\* Three distinct identifiers; the second failed, the first completed last.
C10_Witness ==
    /\ gpPc = "returned"
    /\ s2Ids = <<"P1", "P2", "P3">>
    /\ response[2].kind = "error"
    /\ Resolved(1) /\ Resolved(3)
    /\ lastSettled = 1
    /\ Len(papers) = 2

=============================================================================
